---- MODULE Spec2Model ----
(***************************************************************************)
(* Model of the digdog whitelist backend.                                  *)
(*                                                                         *)
(* The repository holds three versions of the same express application:   *)
(*   "legacy"    src/server.js lines 1-128   (wallet proof, first version)  *)
(*   "identity"  src/server.js lines 130-281 (wallet proof, table          *)
(*               whitelist, wallet TEXT PRIMARY KEY)                        *)
(*   "anonymous" src/unnamed/part_000        (hCaptcha, table invites,     *)
(*               id INTEGER PRIMARY KEY AUTOINCREMENT, telegram webhook)    *)
(* A run of the model is one deployment: Init picks the version (mode) and *)
(* the configured capacity MAX_SPOTS.                                      *)
(*                                                                         *)
(* Node runs the handlers on one event loop, so a handler runs without     *)
(* interruption from one await to the next: each action below is one such  *)
(* synchronous segment of a handler.                                       *)
(***************************************************************************)
EXTENDS Integers, FiniteSets, Sequences, TLC

\* ------------------------------------------------------------------ bounds
MaxReq == 3          \* number of /join requests of a run
MaxCapacity == 2     \* MAX_SPOTS ranges over 0..MaxCapacity
MaxMembers == 2      \* entries of message.new_chat_members of a webhook event

Req == 1..MaxReq

Modes == {"legacy", "identity", "anonymous"}

\* ------------------------------------------------------------------ inputs
\* Wallet strings of a request body: "" is a missing field, "bad" a string
\* that does not decode to a 32-byte public key, W1..W3 valid addresses.
Wallets == {"W1", "W2", "W3"}

\* Signature strings: "" missing, "short" decodes to fewer than 64 bytes,
\* "sigWi" is the detached signature of the challenge made with Wi's key.
KeyOf(sig) ==
    CASE sig = "sigW1" -> "W1"
      [] sig = "sigW2" -> "W2"
      [] sig = "sigW3" -> "W3"
      [] OTHER -> "nobody"

\* The request bodies the model submits in the wallet-proof versions.
IdentityBodies ==
    { [wallet |-> "",    signature |-> "sigW1"],
      [wallet |-> "W1",  signature |-> ""],
      [wallet |-> "bad", signature |-> "sigW1"],
      [wallet |-> "W1",  signature |-> "short"],
      [wallet |-> "W1",  signature |-> "sigW2"],
      [wallet |-> "W1",  signature |-> "sigW1"],
      [wallet |-> "W2",  signature |-> "sigW2"],
      [wallet |-> "W3",  signature |-> "sigW3"] }

\* captchaToken of a request body in the anonymous version.
CaptchaTokens == {"", "tok"}

\* What the hCaptcha siteverify call can do: answer success true, answer
\* success false, answer a body that is not JSON, or reject (network error).
HcResults == {"success", "failure", "malformed", "reject"}

\* What the createChatInviteLink call can do: ok with a link, ok false,
\* ok without result.invite_link, a body that is not JSON, or reject.
TgResults == {"ok", "notOk", "noLink", "badBody", "reject"}

\* What a sendMessage call of the webhook can do.
SendResults == {"sent", "reject"}

Max0(n) == IF n > 0 THEN n ELSE 0

\* ------------------------------------------------------------------- state
VARIABLES
    mode,       \* which version is deployed
    MAX_SPOTS,  \* parseInt(process.env.MAX_SPOTS || "500", 10)
    db,         \* the table: a set of rows [id, wallet, by]
    nextId,     \* next row id (sqlite_sequence of the AUTOINCREMENT column)
    req,        \* per /join request: the handler's locals and its response
    peak,       \* history: the most requests that were in flight at once
    spotsResp,  \* the response of GET /spots when that was the last step
    whPc,       \* POST /telegram-webhook: position of the handler
    whEvent,    \* the update it received
    whQueue,    \* membersToWelcome still to greet
    whTrace     \* history: what the handler did, in order

vars == <<mode, MAX_SPOTS, db, nextId, req, peak, spotsResp,
          whPc, whEvent, whQueue, whTrace>>

joinVars == <<db, nextId, req, peak>>
whVars == <<whPc, whEvent, whQueue, whTrace>>

\* history: no request has arrived while another was in flight
sequential == peak <= 1

\* ------------------------------------------------------------------- store
\* A row is [id, wallet, by]: id is the row's key (invites.id, or the rowid of
\* whitelist), wallet is "" in table invites, and by is history: the request
\* whose insert created the row (the code does not record it).

\* SELECT COUNT(*) AS c
getCount(d) == Cardinality(d)

\* a lookup that tests the prepared statement instead of the row it gets
existsAlways(d, w) == TRUE

\* a lookup that finds nothing
existsNever(d, w) == FALSE

\* SELECT wallet FROM whitelist WHERE wallet=?
exists(d, w) == \E row \in d : row.wallet = w

\* INSERT INTO whitelist(wallet, created_at): the PRIMARY KEY makes the
\* statement throw when a row with that wallet is present.
insertWalletThrows(d, w) == \E row \in d : row.wallet = w

insertWallet(d, w, id, r) == d \cup {[id |-> id, wallet |-> w, by |-> r]}

\* DELETE FROM whitelist, the WHERE clause left out
deleteWalletNoWhere(d, w) == {}

\* DELETE FROM whitelist WHERE wallet=?
deleteWallet(d, w) == {row \in d : row.wallet # w}

\* INSERT INTO invites(created_at)
insertInvite(d, id, r) == d \cup {[id |-> id, wallet |-> "", by |-> r]}

\* DELETE FROM invites, the WHERE clause left out
deleteEveryInviteRow(d) == {}

\* DELETE FROM invites WHERE id = (SELECT id FROM invites ORDER BY id DESC LIMIT 1)
deleteLastInviteRow(d) == {row \in d : \E other \in d : other.id > row.id}


\* ------------------------------------------------------- pure parts of /join
\* new PublicKey(wallet) throws unless the string decodes to 32 bytes
PublicKeyThrows(w) == w \notin Wallets

\* nacl.sign.detached.verify throws "bad signature size" unless the decoded
\* signature has 64 bytes
verifySignatureBase64Throws(w, s) == s = "short"

\* ... and otherwise tells whether the signature was made with the wallet's key
verifySignatureBase64(w, s) == KeyOf(s) = w

\* the comparison written as "greater than"
isFullStrict(current, max) == current > max

\* current >= MAX_SPOTS
isFull(current, max) == current >= max

\* the parsed body of the createChatInviteLink answer, as far as /join reads
\* it: tgData.ok and tgData.result?.invite_link
TgData(t) ==
    CASE t = "ok"     -> [ok |-> TRUE,  invite_link |-> TRUE]
      [] t = "noLink" -> [ok |-> TRUE,  invite_link |-> FALSE]
      [] t = "notOk"  -> [ok |-> FALSE, invite_link |-> FALSE]
      [] OTHER        -> [ok |-> FALSE, invite_link |-> FALSE]   \* {}

\* !tgData.ok || !tgData.result?.invite_link
issuanceFailed(tgData) == ~tgData.ok \/ ~tgData.invite_link

\* !hc.success, hc being the parsed siteverify body ({} when it is not JSON)
humanCheckFailed(h) == h # "success"

\* spots_remaining that forgets the row just inserted
spotsRemainingOffByOne(max, current) == max - current

\* spots_remaining of the success response
spotsRemainingIdentity(max, current) == max - (current + 1)

spotsRemainingAnonymous(max, current) == Max0(max - (current + 1))

\* --------------------------------------------------------------- GET /spots
spotsLegacy(max, d) ==
    [max |-> max, used |-> getCount(d), remaining |-> max - getCount(d)]

spotsIdentity(max, d) ==
    [max |-> max, used |-> getCount(d), remaining |-> Max0(max - getCount(d))]

\* remaining without Math.max(0, ...)
spotsUnclamped(max, d) ==
    [max |-> max, used |-> getCount(d), remaining |-> max - getCount(d)]

spotsAnonymous(max, d) ==
    [max |-> max, used |-> getCount(d), remaining |-> Max0(max - getCount(d))]

\* -------------------------------------------------------------------- Init
NoRequest ==
    [pc |-> "idle", wallet |-> "", signature |-> "", captchaToken |-> "",
     current |-> 0, status |-> 0, outcome |-> "none", spots_remaining |-> 0,
     reserved |-> FALSE, issuance |-> "none", hc |-> "none",
     inviteCalls |-> 0]

NoSpots == [max |-> 0 - 1, used |-> 0 - 1, remaining |-> 0 - 1]

Init ==
    /\ mode \in Modes
    /\ MAX_SPOTS \in 0..MaxCapacity
    /\ db = {}
    /\ nextId = 1
    /\ req = [r \in Req |-> NoRequest]
    /\ peak = 0
    /\ spotsResp = NoSpots
    /\ whPc = "idle"
    /\ whEvent = [new_chat_members |-> 0, new_chat_participant |-> FALSE,
                  chat_member |-> FALSE]
    /\ whQueue = 0
    /\ whTrace = << >>

\* ------------------------------------------------------------- POST /join
InFlight(r) == req[r].pc \notin {"idle", "done"}

\* Requests are numbered in the order they arrive.
Arrives(r) ==
    /\ req[r].pc = "idle"
    /\ \A q \in Req : q < r => req[q].pc # "idle"
    /\ LET now == 1 + Cardinality({q \in Req : InFlight(q)})
       IN  peak' = IF now > peak THEN now ELSE peak

\* res.status(st).json(...): the request ends with status st, outcome oc,
\* and the handler's local `current` goes out of scope.
Respond(rec, st, oc) ==
    [rec EXCEPT !.pc = "done", !.status = st, !.outcome = oc, !.current = 0]

\* The handler returns a response without touching the store.
Reply(r, rec, st, oc) ==
    /\ req' = [req EXCEPT ![r] = Respond(rec, st, oc)]
    /\ UNCHANGED <<db, nextId>>

\* identity version, from the start of the handler to `await fetch(...)`
JoinIdentity(r) ==
    /\ mode = "identity"
    /\ Arrives(r)
    /\ \E body \in IdentityBodies :
        LET wallet == body.wallet
            signature == body.signature
            rec == [req[r] EXCEPT !.wallet = wallet, !.signature = signature]
            current == getCount(db)
        IN  IF wallet = "" \/ signature = ""
              THEN Reply(r, rec, 400, "MissingInput")
            ELSE IF PublicKeyThrows(wallet)
              THEN Reply(r, rec, 400, "InvalidIdentity")
            ELSE IF verifySignatureBase64Throws(wallet, signature)
              THEN Reply(r, rec, 500, "InternalError")
            ELSE IF ~verifySignatureBase64(wallet, signature)
              THEN Reply(r, rec, 401, "UnauthorizedSignature")
            ELSE IF exists(db, wallet)
              THEN Reply(r, rec, 409, "Duplicate")
            ELSE IF isFull(current, MAX_SPOTS)
              THEN Reply(r, rec, 403, "CapacityExceeded")
            ELSE IF insertWalletThrows(db, wallet)
              THEN Reply(r, rec, 500, "InternalError")
            ELSE /\ db' = insertWallet(db, wallet, nextId, r)
                 /\ nextId' = nextId + 1
                 /\ req' = [req EXCEPT ![r] =
                              [rec EXCEPT !.pc = "awaitInvite", !.current = current,
                                          !.reserved = TRUE, !.inviteCalls = 1]]
    /\ spotsResp' = NoSpots
    /\ UNCHANGED <<mode, MAX_SPOTS, whVars>>

\* identity version, from the answer of createChatInviteLink to the response
\* (the handler touches no shared state between `await fetch` and
\* `await tgResp.json()`, so the two awaits are one step).
\* A rejected fetch and a body tgResp.json() cannot parse both throw into the
\* handler's catch, which answers 500 "Server error" and deletes nothing.
JoinIdentityInvite(r) ==
    /\ mode = "identity"
    /\ req[r].pc = "awaitInvite"
    /\ \E t \in TgResults :
        LET rec == req[r] IN
        IF t \in {"reject", "badBody"}
          THEN Reply(r, [rec EXCEPT !.issuance = "failed"], 500, "InternalError")
        ELSE IF issuanceFailed(TgData(t))
          THEN /\ db' = deleteWallet(db, rec.wallet)
               /\ req' = [req EXCEPT ![r] =
                            Respond([rec EXCEPT !.issuance = "failed"],
                                    500, "UpstreamIssuanceFailed")]
               /\ UNCHANGED nextId
        ELSE Reply(r, [rec EXCEPT !.issuance = "ok",
                         !.spots_remaining = spotsRemainingIdentity(MAX_SPOTS, rec.current)],
                   200, "Success")
    /\ spotsResp' = NoSpots
    /\ UNCHANGED <<mode, MAX_SPOTS, peak, whVars>>


\* legacy version: the whole handler.  It never declares `message`, so the
\* call of verifySignature at line 76 throws a ReferenceError for every body
\* that passes the two checks before it; the catch answers 500 "Server error".
JoinLegacy(r) ==
    /\ mode = "legacy"
    /\ Arrives(r)
    /\ \E body \in IdentityBodies :
        LET wallet == body.wallet
            signature == body.signature
            rec == [req[r] EXCEPT !.wallet = wallet, !.signature = signature]
        IN  IF wallet = "" \/ signature = ""
              THEN Reply(r, rec, 400, "MissingInput")
            ELSE IF PublicKeyThrows(wallet)
              THEN Reply(r, rec, 400, "InvalidIdentity")
            ELSE Reply(r, rec, 500, "InternalError")
    /\ spotsResp' = NoSpots
    /\ UNCHANGED <<mode, MAX_SPOTS, whVars>>

\* anonymous version, from the start of the handler to the siteverify call
JoinAnonymous(r) ==
    /\ mode = "anonymous"
    /\ whPc = "idle"
    /\ Arrives(r)
    /\ \E captchaToken \in CaptchaTokens :
        LET rec == [req[r] EXCEPT !.captchaToken = captchaToken]
            current == getCount(db)
        IN  IF captchaToken = ""
              THEN Reply(r, rec, 400, "MissingInput")
            ELSE IF isFull(current, MAX_SPOTS)
              THEN Reply(r, rec, 403, "CapacityExceeded")
            ELSE /\ req' = [req EXCEPT ![r] =
                              [rec EXCEPT !.pc = "awaitCaptcha", !.current = current]]
                 /\ UNCHANGED <<db, nextId>>
    /\ spotsResp' = NoSpots
    /\ UNCHANGED <<mode, MAX_SPOTS, whVars>>

\* the same segment with insertInvite() moved above the check of hc.success
JoinAnonymousCaptchaReservesFirst(r) ==
    /\ mode = "anonymous"
    /\ req[r].pc = "awaitCaptcha"
    /\ \E h \in HcResults :
        LET rec == [req[r] EXCEPT !.hc = h] IN
        IF h = "reject"
          THEN Reply(r, rec, 500, "InternalError")
        ELSE /\ db' = insertInvite(db, nextId, r)
             /\ nextId' = nextId + 1
             /\ IF humanCheckFailed(h)
                  THEN req' = [req EXCEPT ![r] =
                                 Respond(rec, 403, "HumanVerificationFailed")]
                  ELSE req' = [req EXCEPT ![r] =
                                 [rec EXCEPT !.pc = "awaitInvite", !.reserved = TRUE,
                                             !.inviteCalls = 1]]
    /\ spotsResp' = NoSpots
    /\ UNCHANGED <<mode, MAX_SPOTS, peak, whVars>>

\* anonymous version, from the answer of siteverify to the createChatInviteLink
\* call.  verifyHCaptcha awaits fetch with no catch of its own, so a rejected
\* fetch throws into the handler's catch: 500 "Server error".
JoinAnonymousCaptcha(r) ==
    /\ mode = "anonymous"
    /\ req[r].pc = "awaitCaptcha"
    /\ \E h \in HcResults :
        LET rec == [req[r] EXCEPT !.hc = h] IN
        IF h = "reject"
          THEN Reply(r, rec, 500, "InternalError")
        ELSE IF humanCheckFailed(h)
          THEN Reply(r, rec, 403, "HumanVerificationFailed")
        ELSE /\ db' = insertInvite(db, nextId, r)
             /\ nextId' = nextId + 1
             /\ req' = [req EXCEPT ![r] =
                          [rec EXCEPT !.pc = "awaitInvite", !.reserved = TRUE,
                                      !.inviteCalls = 1]]
    /\ spotsResp' = NoSpots
    /\ UNCHANGED <<mode, MAX_SPOTS, peak, whVars>>

\* anonymous version, from the answer of createChatInviteLink to the response.
\* A rejected fetch throws into the catch (500 "Server error", nothing
\* deleted); a body that is not JSON becomes {} and takes the failure branch.
JoinAnonymousInvite(r) ==
    /\ mode = "anonymous"
    /\ req[r].pc = "awaitInvite"
    /\ \E t \in TgResults :
        LET rec == req[r] IN
        IF t = "reject"
          THEN Reply(r, [rec EXCEPT !.issuance = "failed"], 500, "InternalError")
        ELSE IF issuanceFailed(TgData(t))
          THEN /\ db' = deleteLastInviteRow(db)
               /\ req' = [req EXCEPT ![r] =
                            Respond([rec EXCEPT !.issuance = "failed"],
                                    500, "UpstreamIssuanceFailed")]
               /\ UNCHANGED nextId
        ELSE Reply(r, [rec EXCEPT !.issuance = "ok",
                         !.spots_remaining = spotsRemainingAnonymous(MAX_SPOTS, rec.current)],
                   200, "Success")
    /\ spotsResp' = NoSpots
    /\ UNCHANGED <<mode, MAX_SPOTS, peak, whVars>>

\* GET /spots of the deployed version
spots(m, max, d) ==
    CASE m = "legacy"   -> spotsLegacy(max, d)
      [] m = "identity" -> spotsIdentity(max, d)
      [] OTHER          -> spotsAnonymous(max, d)

Spots ==
    /\ spotsResp' = spots(mode, MAX_SPOTS, db)
    /\ spotsResp' # spotsResp
    /\ UNCHANGED <<mode, MAX_SPOTS, joinVars, whVars>>

\* ------------------------------------------------- POST /telegram-webhook
\* The updates the model delivers: the length of message.new_chat_members
\* (0: absent), whether message.new_chat_participant (an object, not an
\* array) is present, and whether chat_member.new_chat_member.user is.
WebhookEvents ==
    { [new_chat_members |-> n, new_chat_participant |-> p, chat_member |-> c] :
        n \in 0..MaxMembers, p \in BOOLEAN, c \in BOOLEAN }

\* membersToWelcome.length: newMembers when it is an array, plus the user of
\* chat_member.  new_chat_participant is read only when new_chat_members is
\* absent, and being no array it adds nobody.
membersToWelcome(update) ==
    update.new_chat_members + (IF update.chat_member THEN 1 ELSE 0)

\* res.sendStatus(200)
webhookAck(trace) == Append(trace, "ack200")

\* a catch that also answers the request
webhookCatchResponds(trace) == Append(Append(trace, "logError"), "errorResponse")

\* catch (e) { console.error(...) }
webhookCatch(trace) == Append(trace, "logError")

\* from the start of the handler to the first `await fetch(...)`.
\* The webhook and /join share no state, so their steps commute: the model
\* delivers the update in runs where no /join request arrives.
Webhook ==
    /\ mode = "anonymous"
    /\ whPc = "idle"
    /\ \A r \in Req : req[r].pc = "idle"
    /\ \E update \in WebhookEvents :
        LET acked == webhookAck(whTrace)
            n == membersToWelcome(update)
        IN  /\ whEvent' = update
            /\ whQueue' = n
            /\ IF n = 0
                 THEN whPc' = "done" /\ whTrace' = acked
                 ELSE whPc' = "awaitSend" /\ whTrace' = Append(acked, "sendMessage")
    /\ spotsResp' = NoSpots
    /\ UNCHANGED <<mode, MAX_SPOTS, joinVars>>

\* from the answer of one sendMessage call to the next call, or to the end.
\* A rejected fetch leaves the loop through the catch.
WebhookSend ==
    /\ whPc = "awaitSend"
    /\ \E s \in SendResults :
        IF s = "reject"
          THEN /\ whTrace' = webhookCatch(whTrace)
               /\ whPc' = "done"
               /\ UNCHANGED whQueue
          ELSE /\ whQueue' = whQueue - 1
               /\ IF whQueue' = 0
                    THEN whPc' = "done" /\ whTrace' = Append(whTrace, "logStatus")
                    ELSE /\ whPc' = "awaitSend"
                         /\ whTrace' = Append(Append(whTrace, "logStatus"), "sendMessage")
    /\ spotsResp' = NoSpots
    /\ UNCHANGED <<mode, MAX_SPOTS, joinVars, whEvent>>

\* -------------------------------------------------------------------- Next
Next ==
    \/ \E r \in Req : JoinLegacy(r)
    \/ \E r \in Req : JoinIdentity(r)
    \/ \E r \in Req : JoinIdentityInvite(r)
    \/ \E r \in Req : JoinAnonymous(r)
    \/ \E r \in Req : JoinAnonymousCaptcha(r)
    \/ \E r \in Req : JoinAnonymousInvite(r)
    \/ Spots
    \/ Webhook
    \/ WebhookSend

Spec == Init /\ [][Next]_vars


\* ------------------------------------------------- calls that never answer
\* The fetch calls carry no timeout and no abort signal, so a call the remote
\* end never answers never settles: the handler stays at its await for good.
CallNeverAnswers(r) ==
    /\ req[r].pc \in {"awaitCaptcha", "awaitInvite"}
    /\ req' = [req EXCEPT ![r].pc = "hung"]
    /\ spotsResp' = NoSpots
    /\ UNCHANGED <<mode, MAX_SPOTS, db, nextId, peak, whVars>>

NextLive ==
    \/ Next
    \/ \E r \in Req : CallNeverAnswers(r)

\* The event loop runs a handler's continuation once the call it awaits has
\* settled: a call that has not been left unanswered is answered in the end.
LiveSpec ==
    /\ Init
    /\ [][NextLive]_vars
    /\ \A r \in Req :
        /\ WF_vars(JoinIdentityInvite(r))
        /\ WF_vars(JoinAnonymousCaptcha(r))
        /\ WF_vars(JoinAnonymousInvite(r))

\* ================================================================ claims
Done(r) == req[r].pc = "done"

\* the step in which request r arrives / in which it sends its response
Arriving(r) == req[r].pc = "idle" /\ req'[r].pc # "idle"
Finishing(r) == req[r].pc # "done" /\ req'[r].pc = "done"

RowsOf(w) == {row \in db : row.wallet = w}

\* C1: the number of admission records never exceeds MAX_SPOTS.
C1_CountWithinCapacity == Cardinality(db) <= MAX_SPOTS

\* C2: a request that has reserved a record and whose invite issuance then
\* fails in any way answers upstream-issuance-failed, and its reservation is
\* undone: the step that ends it takes the one record away again.
C2_RollbackOnAnyFailure ==
    [][\A r \in Req :
         (req[r].pc = "awaitInvite" /\ Finishing(r) /\ req'[r].issuance = "failed")
         => /\ req'[r].outcome = "UpstreamIssuanceFailed"
            /\ Cardinality(db') = Cardinality(db) - 1]_vars

ReachesCapacityCheck(rec, d) ==
    \/ /\ mode = "anonymous"
       /\ rec.captchaToken # ""
    \/ /\ mode = "identity"
       /\ rec.wallet \in Wallets
       /\ rec.signature \in {"sigW1", "sigW2", "sigW3"}
       /\ KeyOf(rec.signature) = rec.wallet
       /\ RowsOf(rec.wallet) = {}

C4_DuplicateDetection ==
    mode = "identity" =>
      \A r1, r2 \in Req :
        (r1 < r2 /\ Done(r1) /\ Done(r2)
           /\ req[r1].outcome = "Success"
           /\ req[r2].wallet = req[r1].wallet
           /\ req[r2].signature = req[r1].signature)
        => /\ req[r2].outcome = "Duplicate"
           /\ req[r2].status = 409
           /\ Cardinality(RowsOf(req[r1].wallet)) = 1
           /\ (\A q \in Req \ {r1, r2} : req[q].pc = "idle") => Cardinality(db) = 1

C4_Witness ==
    /\ mode = "identity"
    /\ sequential
    /\ req[1].outcome = "Success"
    /\ req[2].outcome = "Duplicate"
    /\ req[2].wallet = req[1].wallet
    /\ req[2].signature = req[1].signature
    /\ Cardinality(db) = 1

\* C5: identity mode: once a request for wallet W has returned Success, the
\* store holds exactly one record for W, in that state and ever after.
C5_AdmittedExactlyOnce ==
    mode = "identity" =>
      \A r \in Req :
        (Done(r) /\ req[r].outcome = "Success")
        => Cardinality(RowsOf(req[r].wallet)) = 1

C5_Witness ==
    /\ mode = "identity"
    /\ \E r1, r2, r3 \in Req :
        /\ r1 < r2 /\ r2 < r3
        /\ req[r1].outcome = "Success"
        /\ req[r2].outcome = "UpstreamIssuanceFailed"
        /\ req[r3].outcome = "Duplicate"
        /\ req[r3].wallet = req[r1].wallet

\* C6: a record is deleted only by the request that created it and only when
\* that request's issuance failed: the row of every request that has reserved
\* and has not itself rolled back is in the store.
C6_OnlyOwnRowDeleted ==
    \A r \in Req :
        (req[r].reserved /\ req[r].outcome # "UpstreamIssuanceFailed")
        => \E row \in db : row.by = r

\* C7: GET /spots answers max = MAX_SPOTS, used = the record count and
\* remaining = max(0, MAX_SPOTS - used), which is never negative.
C7_SpotsResponse ==
    spotsResp # NoSpots =>
        /\ spotsResp.max = MAX_SPOTS
        /\ spotsResp.used = Cardinality(db)
        /\ spotsResp.remaining = Max0(MAX_SPOTS - Cardinality(db))
        /\ spotsResp.remaining >= 0

C7_Witness ==
    /\ spotsResp # NoSpots
    /\ spotsResp.used > MAX_SPOTS
    /\ spotsResp.remaining = 0

\* a submission that is valid and whose invite issuance did not fail
ValidSubmission(r) ==
    /\ req[r].issuance # "failed"
    /\ \/ /\ mode = "identity"
          /\ req[r].wallet \in Wallets
          /\ KeyOf(req[r].signature) = req[r].wallet
       \/ /\ mode = "anonymous"
          /\ req[r].captchaToken # ""
          /\ req[r].hc \in {"none", "success"}

Distinct(r) == \A q \in Req : q < r => req[q].wallet # req[r].wallet \/ mode = "anonymous"

\* C8: from the empty store, valid distinct submissions handled one after
\* another end in Success with spots_remaining MAX_SPOTS-1, ..., 0 in order,
\* and the next one is rejected with capacity-exceeded; spots_remaining is
\* never negative.
C8_SequentialFill ==
    /\ \A r \in Req :
        (sequential /\ \A q \in 1..r : Done(q) /\ ValidSubmission(q) /\ Distinct(q))
        => IF r <= MAX_SPOTS
             THEN /\ req[r].outcome = "Success"
                  /\ req[r].status = 200
                  /\ req[r].spots_remaining = MAX_SPOTS - r
             ELSE /\ req[r].outcome = "CapacityExceeded"
                  /\ req[r].status = 403
    /\ \A r \in Req : req[r].outcome = "Success" => req[r].spots_remaining >= 0

C8_Witness ==
    /\ sequential
    /\ mode = "identity"
    /\ MAX_SPOTS = 2
    /\ req[1].outcome = "Success" /\ req[1].spots_remaining = 1
    /\ req[2].outcome = "Success" /\ req[2].spots_remaining = 0
    /\ req[3].outcome = "CapacityExceeded"
    /\ ValidSubmission(3) /\ Distinct(3) /\ Distinct(2)

\* C9: anonymous mode: whenever the verification call does not return
\* success = true, the request ends with human-verification-failed (403),
\* inserts no record and calls the invite API not at all.
C9_HumanVerificationFailsClosed ==
    mode = "anonymous" =>
      \A r \in Req :
        (Done(r) /\ req[r].hc \in {"failure", "malformed", "reject"})
        => /\ req[r].outcome = "HumanVerificationFailed"
           /\ req[r].status = 403
           /\ ~req[r].reserved
           /\ req[r].inviteCalls = 0

\* the entries of the webhook's history that are responses to the event
WebhookResponses == {"ack200", "errorResponse"}

\* C10: the webhook's 200 acknowledgement is the first thing the handler
\* does, before any sendMessage call, and it is the only response, also
\* after a sendMessage call has failed.
C10_AckFirstAndOnce ==
    whPc # "idle" =>
        /\ whTrace[1] = "ack200"
        /\ Cardinality({i \in DOMAIN whTrace : whTrace[i] \in WebhookResponses}) = 1
        /\ \A i \in DOMAIN whTrace : whTrace[i] = "sendMessage" => i > 1

C10_Witness ==
    /\ whPc = "done"
    /\ Len(whTrace) >= 5
    /\ whTrace[2] = "sendMessage"
    /\ whTrace[Len(whTrace)] = "logError"


\* C11: CapacityCheck comes right after the input presence checks: a request
\* that starts when the record count is at least MAX_SPOTS ends with the full
\* condition before any proof step, duplicate check, store write or
\* invite-creation call, so its only outcomes are missing-input and
\* capacity-exceeded.
C11_CapacityCheckFirst ==
    [][\A r \in Req :
         (mode \in {"identity", "anonymous"} /\ Arriving(r)
            /\ Cardinality(db) >= MAX_SPOTS)
         => /\ Done(r)'
            /\ req'[r].outcome \in {"MissingInput", "CapacityExceeded"}
            /\ req'[r].hc = "none"
            /\ req'[r].inviteCalls = 0
            /\ db' = db]_vars


\* C12: anonymous mode: with at most K requests in flight at once, the record
\* count never exceeds MAX_SPOTS + K - 1; K is the most requests that have
\* been in flight at once so far.
C12_BoundedOvershoot ==
    mode = "anonymous" =>
        Cardinality(db) <= MAX_SPOTS + Max0(peak - 1)

C12_Witness ==
    /\ mode = "anonymous"
    /\ MAX_SPOTS = 1
    /\ peak = 2
    /\ Cardinality(db) = 2
    /\ \A r \in Req : Done(r)


\* the outcomes of a request that is turned away before Reserve
RejectedOutcomes ==
    {"MissingInput", "InvalidIdentity", "UnauthorizedSignature",
     "HumanVerificationFailed", "Duplicate", "CapacityExceeded"}

\* C13: a request that ends with MissingInput, InvalidIdentity,
\* UnauthorizedSignature, HumanVerificationFailed, Duplicate or
\* CapacityExceeded leaves the store unchanged and has made no
\* invite-creation call; the store changes only in steps of requests that
\* have reached Reserve.
C13_RejectedLeavesStore ==
    [][/\ \A r \in Req :
            (Finishing(r) /\ req'[r].outcome \in RejectedOutcomes)
            => /\ db' = db
               /\ ~req'[r].reserved
               /\ req'[r].inviteCalls = 0
               /\ ~\E row \in db : row.by = r
       /\ db' # db => \E r \in Req : req'[r].reserved /\ req'[r] # req[r]]_vars

C13_Witness ==
    /\ Cardinality(db) = 1
    /\ \E r1, r2 \in Req :
        /\ r1 < r2
        /\ req[r1].pc = "awaitInvite"
        /\ Done(r2)
        /\ req[r2].outcome = "HumanVerificationFailed"


\* C14: identity mode: a request whose address is structurally valid but
\* whose signature does not verify (also one of the wrong length) ends with
\* UnauthorizedSignature (401), and a request with a structurally invalid
\* address ends with InvalidIdentity (400); neither ends with the generic 500.
C14_SignatureErrorsDistinguished ==
    mode = "identity" =>
      \A r \in Req :
        (Done(r) /\ req[r].wallet # "" /\ req[r].signature # "")
        => /\ (req[r].wallet \in Wallets /\ KeyOf(req[r].signature) # req[r].wallet)
              => (req[r].outcome = "UnauthorizedSignature" /\ req[r].status = 401)
           /\ req[r].wallet \notin Wallets
              => (req[r].outcome = "InvalidIdentity" /\ req[r].status = 400)

\* the members an update names: each entry of message.new_chat_members and
\* the user of chat_member.new_chat_member
NamedMembers(update) ==
    update.new_chat_members + (IF update.chat_member THEN 1 ELSE 0)

SendsStarted == Cardinality({i \in DOMAIN whTrace : whTrace[i] = "sendMessage"})

\* C16: when the webhook handler has finished, it has attempted exactly one
\* sendMessage call for each member the update names (none for an update
\* that names nobody), also when one of the calls failed.
C16_OneGreetingPerMember ==
    whPc = "done" => SendsStarted = NamedMembers(whEvent)


\* C15: every /join request that has arrived eventually sends its response,
\* also when an outbound call never answers.
C15_EveryRequestAnswers ==
    \A r \in Req : (req[r].pc # "idle") ~> Done(r)


\* C17: identity mode: duplicate check, capacity check and insert of one
\* request run in one piece, so no wallet ever has two rows, no request
\* inserts into a full table (the count stays within MAX_SPOTS), and the
\* insert never fails on the unique constraint: a request that has not
\* reserved ends with the generic 500 only for a signature of the wrong size.
C17_CheckAndInsertAtomic ==
    mode = "identity" =>
        /\ Cardinality(db) <= MAX_SPOTS
        /\ \A w \in Wallets : Cardinality(RowsOf(w)) <= 1
        /\ \A r \in Req :
             (Done(r) /\ req[r].outcome = "InternalError" /\ ~req[r].reserved)
             => req[r].signature = "short"
        /\ \A r1, r2 \in Req :
             (r1 # r2 /\ req[r1].pc = "awaitInvite" /\ req[r2].pc = "awaitInvite")
             => req[r1].wallet # req[r2].wallet

C17_Witness ==
    /\ mode = "identity"
    /\ MAX_SPOTS = 2
    /\ Cardinality(db) = 2
    /\ req[1].pc = "awaitInvite"
    /\ req[2].pc = "awaitInvite"
    /\ Done(3)
    /\ req[3].wallet = req[1].wallet
    /\ req[3].outcome = "Duplicate"

Reserved == {r \in Req : req[r].reserved}
RolledBack == {r \in Req : req[r].outcome = "UpstreamIssuanceFailed"}
Succeeded == {r \in Req : req[r].outcome = "Success"}

\* C18: anonymous mode: the record count is the number of requests that have
\* reserved minus the number that have run the compensating delete (each
\* delete removes exactly one row), so it is never negative and never lower
\* than the number of requests that returned Success.
C18_CountIsReservedMinusRolledBack ==
    mode = "anonymous" =>
        /\ Cardinality(db) = Cardinality(Reserved) - Cardinality(RolledBack)
        /\ Cardinality(db) >= Cardinality(Succeeded)

C18_Witness ==
    /\ mode = "anonymous"
    /\ Cardinality(RolledBack) = 1
    /\ Cardinality(Succeeded) = 1
    /\ Cardinality(Reserved) = 3
    /\ Cardinality(db) = 2

\* C19 as stated: identity mode: a wallet that was answered Duplicate keeps
\* its record: the answer is never given against a reservation that is
\* rolled back afterwards.
C19_DuplicateMeansAdmitted ==
    mode = "identity" =>
      \A r \in Req :
        (Done(r) /\ req[r].outcome = "Duplicate") => RowsOf(req[r].wallet) # {}

\* C19 (amended): identity mode: when a request for wallet W is answered
\* Duplicate, the store holds at that moment a record for W, made by an
\* earlier request for W that has returned Success, is still awaiting its
\* invite, or ended with the generic 500 after reserving.
C19_DuplicateMeansReserved ==
    [][\A r \in Req :
         (mode = "identity" /\ Finishing(r) /\ req'[r].outcome = "Duplicate")
         => \E row \in db :
              /\ row.wallet = req'[r].wallet
              /\ row.by < r
              /\ req[row.by].wallet = row.wallet
              /\ req[row.by].reserved
              /\ \/ req[row.by].pc = "awaitInvite"
                 \/ req[row.by].outcome \in {"Success", "InternalError"}]_vars

C19_Witness ==
    /\ mode = "identity"
    /\ \E r1, r2 \in Req :
        /\ r1 < r2
        /\ req[r2].outcome = "Duplicate"
        /\ req[r2].wallet = req[r1].wallet
        /\ req[r1].outcome = "UpstreamIssuanceFailed"
        /\ RowsOf(req[r1].wallet) = {}

====
